---- MODULE Spec2Model ----
(***************************************************************************)
(* Model of the WordReference page parser of traduz                        *)
(* (src/traduz/word_reference.py): the string sanitizer, the entry builder *)
(* make_translation_from_trs / create_to_word and the driver               *)
(* make_translations (table selection and row grouping).                   *)
(*                                                                         *)
(* Python strings are sequences of one-character strings.  A call that     *)
(* raises is a result record whose exc field names the exception type.     *)
(***************************************************************************)
EXTENDS Integers, Sequences, FiniteSets, TLC

(***************************************************************************)
(* Bounds                                                                  *)
(***************************************************************************)
\* longest string handed to the sanitizer on its own
MaxLen == 4

\* longest row group handed to the builder on its own
MaxGroup == 3

\* most tables in a document
MaxTables == 2

\* most rows in a document, over all tables
MaxRows == 4

\* characters of the strings handed to the sanitizer on its own
Alphabet == {" ", "(", ")", "a"}

\* None: not a string, whose elements are single characters
None == <<"None">>

\* the strings of at most n characters
StringsUpTo(n) == UNION {[1..k -> Alphabet] : k \in 0..n}

(***************************************************************************)
(* _sanitize_string                                                        *)
(***************************************************************************)
Ok(v) == [exc |-> "none", msg |-> "", val |-> v]

Raise(e, m) == [exc |-> e, msg |-> m, val |-> None]

RECURSIVE lstrip(_)
lstrip(s) == IF s # <<>> /\ Head(s) = " " THEN lstrip(Tail(s)) ELSE s

RECURSIVE rstrip(_)
rstrip(s) ==
    IF s # <<>> /\ s[Len(s)] = " " THEN rstrip(SubSeq(s, 1, Len(s) - 1)) ELSE s

\* str.strip()
strip(s) == rstrip(lstrip(s))

\* _sanitize_string without the test of line 36: the last character goes,
\* whatever it is
SanitizeDropsLast(text) ==
    LET t1 == strip(text) IN
    IF t1 = <<>> THEN Ok(t1)
    ELSE LET t2 == IF t1[1] = "(" THEN Tail(t1) ELSE t1 IN
         IF t2 = <<>> THEN Raise("IndexError", "string index out of range")
         ELSE Ok(SubSeq(t2, 1, Len(t2) - 1))

\* text[0] == "(" gives text[1:]; the test text[-1] of an empty string
\* raises IndexError.
_sanitize_string(text) ==
    LET t1 == strip(text) IN
    IF t1 = <<>> THEN Ok(t1)
    ELSE LET t2 == IF t1[1] = "(" THEN Tail(t1) ELSE t1 IN
         IF t2 = <<>> THEN Raise("IndexError", "string index out of range")
         ELSE IF t2[Len(t2)] = ")" THEN Ok(SubSeq(t2, 1, Len(t2) - 1))
         ELSE Ok(t2)

\* _sanitize_string(_sanitize_string(text)): the exception of the inner
\* call propagates.
SanitizeTwice(text) ==
    LET r == _sanitize_string(text) IN
    IF r.exc # "none" THEN r ELSE _sanitize_string(r.val)

(***************************************************************************)
(* Markup.  A cell (td) is its class attribute, a sequence of class        *)
(* tokens, and its child nodes in document order; a node is a text node    *)
(* (tag "#text") or an element with its class tokens and its own text      *)
(* (<<>> when the element has no text child).  The tag "span span" is a    *)
(* span nested in a span.  A row (tr) is its class tokens, its id          *)
(* attribute (None when absent) and its cells.                             *)
(***************************************************************************)
HasToken(cls, c) == \E i \in 1..Len(cls) : cls[i] = c

\* td.css(".c") is non-empty: the cell or one of its descendants has class c
CssClass(td, c) ==
    HasToken(td.cls, c) \/ \E i \in 1..Len(td.nodes) : HasToken(td.nodes[i].cls, c)

\* tr.css(".c") is non-empty
TrCssClass(tr, c) ==
    HasToken(tr.cls, c) \/ \E i \in 1..Len(tr.tds) : CssClass(tr.tds[i], c)

RECURSIVE FirstTextOf(_, _, _)
\* the first text node, in document order, under the nodes selected by
\* tags (all nodes when tags = {}) and class c (any class when c = ""),
\* or None: SelectorList.get() of a "::text" query
FirstTextOf(nodes, tags, c) ==
    IF nodes = <<>> THEN None
    ELSE LET n == Head(nodes) IN
         IF /\ (tags = {} \/ n.tag \in tags)
            /\ (c = "" \/ HasToken(n.cls, c))
            /\ n.text # <<>>
         THEN n.text
         ELSE FirstTextOf(Tail(nodes), tags, c)

\* OrEmpty without the fallback: an absent text stays None
OrEmptyKeepsNone(x) == x

\* x or ""
OrEmpty(x) == IF x = None THEN <<>> ELSE x

RECURSIVE MergeText(_)
\* lxml joins the tail text of a dropped element to the text before it
MergeText(nodes) ==
    IF Len(nodes) < 2 THEN nodes
    ELSE IF nodes[1].tag = "#text" /\ nodes[2].tag = "#text"
         THEN MergeText(<<[nodes[1] EXCEPT !.text = nodes[1].text \o nodes[2].text]>>
                        \o SubSeq(nodes, 3, Len(nodes)))
         ELSE <<nodes[1]>> \o MergeText(Tail(nodes))

\* td.css("i").drop()
DropTag(td, tag) ==
    [td EXCEPT !.nodes = MergeText(SelectSeq(td.nodes, LAMBDA n : n.tag # tag))]

\* td.css(".c").drop()
DropClass(td, c) ==
    [td EXCEPT !.nodes = MergeText(SelectSeq(td.nodes, LAMBDA n : ~HasToken(n.cls, c)))]

(***************************************************************************)
(* Records of the result                                                   *)
(***************************************************************************)
FromWord(t, d, p, f) == [text |-> t, definition |-> d, pos2 |-> p, fr2 |-> f]

\* the value of from_word before a source row was seen
NoFromWord == FromWord(None, None, None, None)

ToWord(t, p, d) == [text |-> t, pos2 |-> p, dsense |-> d]

Translation(f, ts) == [from_word |-> f, to_words |-> ts]

(***************************************************************************)
(* create_to_word: the result carries the target cell as the call leaves   *)
(* it (its POS2 elements dropped).                                         *)
(***************************************************************************)
ToWordResult(e, m, v, td) == [exc |-> e, msg |-> m, val |-> v, td2 |-> td]

create_to_word(td1, td2) ==
    LET dsense_text == OrEmpty(FirstTextOf(td1.nodes, {"span span"}, ""))
        has_pos2 == \E i \in 1..Len(td2.nodes) : HasToken(td2.nodes[i].cls, "POS2")
        to_pos2_text == IF has_pos2 THEN OrEmpty(FirstTextOf(td2.nodes, {}, "POS2")) ELSE <<>>
        to_td == IF has_pos2 THEN DropClass(td2, "POS2") ELSE td2
        to_text == FirstTextOf(to_td.nodes, {}, "")
        s_text == _sanitize_string(to_text)
        s_pos2 == _sanitize_string(to_pos2_text)
        s_dsense == _sanitize_string(dsense_text)
        none == ToWord(None, None, None)
    IN  IF td2.cls # <<"ToWrd">>
        THEN ToWordResult("ValueError", "Third td should have ToWrd class", none, td2)
        ELSE IF to_text = None \/ to_text = <<>>
        THEN ToWordResult("ValueError", "To Text should not be None", none, to_td)
        ELSE IF s_text.exc # "none" THEN ToWordResult(s_text.exc, s_text.msg, none, to_td)
        ELSE IF s_pos2.exc # "none" THEN ToWordResult(s_pos2.exc, s_pos2.msg, none, to_td)
        ELSE IF s_dsense.exc # "none" THEN ToWordResult(s_dsense.exc, s_dsense.msg, none, to_td)
        ELSE ToWordResult("none", "", ToWord(s_text.val, s_pos2.val, s_dsense.val), to_td)

(***************************************************************************)
(* make_translation_from_trs.  The result carries, besides the exception   *)
(* or the Translation, the rows as the call leaves them, the number of     *)
(* rows whose loop body completed and the ToWords built.                   *)
(***************************************************************************)
BuildResult(e, m, v, trs, k, ts) ==
    [exc |-> e, msg |-> m, val |-> v, trs |-> trs, processed |-> k, built |-> ts]

NoTranslation == Translation(NoFromWord, <<>>)

\* SourceBranch without the drop of line 70: the definition is read with
\* the italic element still in the cell
SourceBranchKeepsItalic(td0, td1) ==
    LET from_text == FirstTextOf(td0.nodes, {"strong"}, "")
        from_pos2 == OrEmpty(FirstTextOf(td0.nodes, {"em"}, ""))
        fr2_text == OrEmpty(FirstTextOf(td1.nodes, {"i"}, ""))
        definition == FirstTextOf(td1.nodes, {}, "")
        s_def == _sanitize_string(strip(definition))
    IN  IF from_text = None
        THEN [exc |-> "ValueError", msg |-> "From Word should not be None",
              from_word |-> NoFromWord, td1 |-> td1]
        ELSE IF definition = None
        THEN [exc |-> "ValueError", msg |-> "Definition should not be None",
              from_word |-> NoFromWord, td1 |-> td1]
        ELSE IF s_def.exc # "none"
        THEN [exc |-> s_def.exc, msg |-> s_def.msg, from_word |-> NoFromWord, td1 |-> td1]
        ELSE [exc |-> "none", msg |-> "",
              from_word |-> FromWord(from_text, s_def.val, from_pos2, fr2_text),
              td1 |-> td1]

\* lines 49-81: the source row branch.  Gives the exception, the new
\* from_word and the definition cell as the branch leaves it.
SourceBranch(td0, td1) ==
    LET from_text == FirstTextOf(td0.nodes, {"strong"}, "")
        from_pos2 == OrEmpty(FirstTextOf(td0.nodes, {"em"}, ""))
        fr2_text == OrEmpty(FirstTextOf(td1.nodes, {"i"}, ""))
        dropped == DropTag(td1, "i")
        definition == FirstTextOf(dropped.nodes, {}, "")
        s_def == _sanitize_string(strip(definition))
    IN  IF from_text = None
        THEN [exc |-> "ValueError", msg |-> "From Word should not be None",
              from_word |-> NoFromWord, td1 |-> td1]
        ELSE IF definition = None
        THEN [exc |-> "ValueError", msg |-> "Definition should not be None",
              from_word |-> NoFromWord, td1 |-> dropped]
        ELSE IF s_def.exc # "none"
        THEN [exc |-> s_def.exc, msg |-> s_def.msg, from_word |-> NoFromWord, td1 |-> dropped]
        ELSE [exc |-> "none", msg |-> "",
              from_word |-> FromWord(from_text, s_def.val, from_pos2, fr2_text),
              td1 |-> dropped]

\* RowShape without the branch of line 94: a one-cell row is unrecognized
RowShapeNoNote(tds) ==
    IF Len(tds) = 3 THEN "translation"
    ELSE IF Len(tds) = 2 THEN "phrase"
    ELSE "unrecognized"

\* lines 47, 91, 94, 97: the branch a row takes, by its number of cells
RowShape(tds) ==
    IF Len(tds) = 3 THEN "translation"
    ELSE IF Len(tds) = 2 THEN "phrase"
    ELSE IF Len(tds) = 1 THEN "note"
    ELSE "unrecognized"

\* line 76: a source row assigns from_word, whatever it held
AssignFromWord(from_word, new_from_word) == new_from_word

\* AppendToWord keeping only the ToWord of the first translation row
AppendToWordFirstOnly(to_words, to_word) ==
    IF to_words = <<>> THEN <<to_word>> ELSE to_words

\* line 83: to_words.append(to_word)
AppendToWord(to_words, to_word) == Append(to_words, to_word)

\* Finish without the test of line 100
FinishUnchecked(trs, from_word, to_words) ==
    BuildResult("none", "", Translation(from_word, to_words), trs, Len(trs), to_words)

\* Finish raising only when no ToWord was built either
FinishEmptyOnly(trs, from_word, to_words) ==
    IF from_word = NoFromWord /\ to_words = <<>>
    THEN BuildResult("ValueError", "from_word should not be None", NoTranslation,
                     trs, Len(trs), to_words)
    ELSE BuildResult("none", "", Translation(from_word, to_words), trs, Len(trs), to_words)

\* lines 100-103
Finish(trs, from_word, to_words) ==
    IF from_word = NoFromWord
    THEN BuildResult("ValueError", "from_word should not be None", NoTranslation,
                     trs, Len(trs), to_words)
    ELSE BuildResult("none", "", Translation(from_word, to_words), trs, Len(trs), to_words)

RECURSIVE BuildLoop(_, _, _, _)
\* the for loop of lines 45-98 from row k on, then lines 100-103
BuildLoop(trs, k, from_word, to_words) ==
    IF k > Len(trs) THEN Finish(trs, from_word, to_words)
    ELSE LET tds == trs[k].tds
             shape == RowShape(tds)
         IN
         IF shape = "translation"
         THEN LET is_src == CssClass(tds[1], "FrWrd")
                  src == SourceBranch(tds[1], tds[2])
                  td1 == IF is_src THEN src.td1 ELSE tds[2]
                  trs1 == [trs EXCEPT ![k].tds[2] = td1]
                  tw == create_to_word(td1, tds[3])
                  trs2 == [trs1 EXCEPT ![k].tds[3] = tw.td2]
              IN  IF is_src /\ src.exc # "none"
                  THEN BuildResult(src.exc, src.msg, NoTranslation, trs1, k - 1, to_words)
                  ELSE IF tw.exc # "none"
                  THEN BuildResult(tw.exc, tw.msg, NoTranslation, trs2, k - 1, to_words)
                  ELSE BuildLoop(trs2, k + 1,
                                 IF is_src THEN AssignFromWord(from_word, src.from_word)
                                 ELSE from_word,
                                 AppendToWord(to_words, tw.val))
         ELSE IF shape = "phrase" \/ shape = "note"
         THEN BuildLoop(trs, k + 1, from_word, to_words)
         ELSE BuildResult("ValueError", "Unrecognized tr", NoTranslation, trs, k - 1, to_words)

make_translation_from_trs(trs) == BuildLoop(trs, 1, NoFromWord, <<>>)

(***************************************************************************)
(* make_translations.  A table is one element of selector.css("table .WRD")*)
(* with regular = (table.css("td#regular") is non-empty) and its rows      *)
(* table.css("tr").                                                        *)
(***************************************************************************)
\* str.startswith
StartsWith(s, prefix) ==
    Len(s) >= Len(prefix) /\ SubSeq(s, 1, Len(prefix)) = prefix

\* line 166
IsHeaderRow(tr) == TrCssClass(tr, "langHeader") \/ TrCssClass(tr, "wrtopsection")

\* line 169
IsBoundaryRow(tr) ==
    /\ tr.id # None
    /\ tr.id # <<>>
    /\ (StartsWith(tr.id, <<"e", "n", "e", "s">>) \/ StartsWith(tr.id, <<"e", "s", "e", "n">>))

\* GroupStep with the boundary row appended to the group it closes
GroupStepBoundaryLast(st, tr) ==
    IF IsHeaderRow(tr) THEN st
    ELSE IF IsBoundaryRow(tr) /\ st.cur_translation # <<>>
    THEN [translations |-> Append(st.translations, Append(st.cur_translation, tr)),
          cur_translation |-> <<>>]
    ELSE [st EXCEPT !.cur_translation = Append(st.cur_translation, tr)]

\* GroupStep with the id of a row looked at before its header marker
GroupStepIdFirst(st, tr) ==
    LET closed == IF IsBoundaryRow(tr) /\ st.cur_translation # <<>>
                  THEN [translations |-> Append(st.translations, st.cur_translation),
                        cur_translation |-> <<>>]
                  ELSE st
    IN  IF IsHeaderRow(tr) THEN closed
        ELSE [closed EXCEPT !.cur_translation = Append(closed.cur_translation, tr)]

\* lines 166-174: one iteration of the loop over the rows; st holds the
\* lists translations and cur_translation
GroupStep(st, tr) ==
    IF IsHeaderRow(tr) THEN st
    ELSE IF IsBoundaryRow(tr) /\ st.cur_translation # <<>>
    THEN [translations |-> Append(st.translations, st.cur_translation),
          cur_translation |-> <<tr>>]
    ELSE [st EXCEPT !.cur_translation = Append(st.cur_translation, tr)]

RECURSIVE GroupLoop(_, _)
GroupLoop(st, trs) ==
    IF trs = <<>> THEN st ELSE GroupLoop(GroupStep(st, Head(trs)), Tail(trs))

\* Flush without the group still open at the end of the rows
FlushDropsOpen(st) == st.translations

\* line 175: translations.append(cur_translation)
Flush(st) == Append(st.translations, st.cur_translation)

\* lines 162-175: the row groups of a table
GroupRows(trs) ==
    Flush(GroupLoop([translations |-> <<>>, cur_translation |-> <<>>], trs))

\* AppendTranslation putting the new Translation first
AppendTranslationFirst(translation_objs, obj) == <<obj>> \o translation_objs

\* line 178: translation_objs.append(...)
AppendTranslation(translation_objs, obj) == Append(translation_objs, obj)

RECURSIVE BuildAll(_, _)
\* lines 177-178: build the groups in order onto translation_objs; an
\* exception of the builder ends the call
BuildAll(translation_objs, translations) ==
    IF translations = <<>> THEN [exc |-> "none", msg |-> "", objs |-> translation_objs]
    ELSE LET r == make_translation_from_trs(Head(translations)) IN
         IF r.exc # "none" THEN [exc |-> r.exc, msg |-> r.msg, objs |-> translation_objs]
         ELSE BuildAll(AppendTranslation(translation_objs, r.val), Tail(translations))

(***************************************************************************)
(* Markup of the rows the builder is run on                                *)
(***************************************************************************)
TextNode(t) == [tag |-> "#text", cls |-> <<>>, text |-> t]

Element(tag, cls, t) == [tag |-> tag, cls |-> cls, text |-> t]

Td(cls, nodes) == [cls |-> cls, nodes |-> nodes]

Tr(cls, id, tds) == [cls |-> cls, id |-> id, tds |-> tds]

\* <td class="FrWrd"><strong>h</strong> <em class="POS2">n</em></td>
SrcCell(h) ==
    Td(<<"FrWrd">>, <<Element("strong", <<>>, h), Element("em", <<"POS2">>, <<"n">>)>>)

\* a source cell without the strong element
SrcCellNoStrong == Td(<<"FrWrd">>, <<>>)

\* <td>&nbsp;</td>
PlainCell == Td(<<>>, <<TextNode(<<" ">>)>>)

\* <td><i class="Fr2">q</i> (g) </td>
DefCellQual ==
    Td(<<>>, <<Element("i", <<"Fr2">>, <<"q">>), TextNode(<<" ", "(", "g", ")", " ">>)>>)

\* <td>(g)</td>
DefCell == Td(<<>>, <<TextNode(<<"(", "g", ")">>)>>)

\* <td> <span class="dsense"><span>d</span></span></td>
DefCellSense ==
    Td(<<>>, <<TextNode(<<" ">>), Element("span span", <<>>, <<"d">>)>>)

\* <td><span class="dsense"><span>(</span></span></td>
DefCellSenseParen == Td(<<>>, <<Element("span span", <<>>, <<"(">>)>>)

\* <td></td>
EmptyCell == Td(<<>>, <<>>)

\* <td>(</td>
DefCellParen == Td(<<>>, <<TextNode(<<"(">>)>>)

\* <td class="ToWrd">t <em class="POS2">n</em></td>
TgtCell(t) ==
    Td(<<"ToWrd">>, <<TextNode(t), Element("em", <<"POS2">>, <<"n">>)>>)

\* <td>t</td>
TgtCellNoClass(t) == Td(<<>>, <<TextNode(t)>>)

\* <td class="ToWrd"></td>
TgtCellNoText == Td(<<"ToWrd">>, <<>>)

HeadRow == Tr(<<"even">>, <<"e", "n", "e", "s", "1">>, <<SrcCell(<<"h">>), DefCellQual, TgtCell(<<"t">>)>>)

HeadRow2 == Tr(<<"odd">>, None, <<SrcCell(<<"k">>), DefCell, TgtCell(<<"u">>)>>)

SenseRow == Tr(<<"even">>, None, <<PlainCell, DefCellSense, TgtCell(<<"(", "v", ")">>)>>)

PhraseRow == Tr(<<"even">>, None, <<PlainCell, EmptyCell>>)

NoteRow == Tr(<<"even">>, None, <<PlainCell>>)

NoCellRow == Tr(<<"even">>, None, <<>>)

WideRow == Tr(<<"even">>, None, <<PlainCell, DefCell, TgtCell(<<"t">>), PlainCell>>)

NoTargetClassRow == Tr(<<"even">>, None, <<PlainCell, EmptyCell, TgtCellNoClass(<<"t">>)>>)

NoTargetTextRow == Tr(<<"even">>, None, <<PlainCell, EmptyCell, TgtCellNoText>>)

NoStrongRow == Tr(<<"even">>, None, <<SrcCellNoStrong, DefCell, TgtCell(<<"t">>)>>)

NoDefinitionRow == Tr(<<"even">>, None, <<SrcCell(<<"h">>), EmptyCell, TgtCell(<<"t">>)>>)

ParenDefinitionRow == Tr(<<"even">>, None, <<SrcCell(<<"h">>), DefCellParen, TgtCell(<<"t">>)>>)

ParenSenseRow == Tr(<<"even">>, None, <<PlainCell, DefCellSenseParen, TgtCell(<<"t">>)>>)

\* <td class="ToWrd x">t <em class="POS2">n</em></td>
TgtCellTwoClasses(t) ==
    Td(<<"ToWrd", "x">>, <<TextNode(t), Element("em", <<"POS2">>, <<"n">>)>>)

\* <td class="FrWrd"><strong>h</strong></td>
SrcCellBare(h) == Td(<<"FrWrd">>, <<Element("strong", <<>>, h)>>)

\* <td class="ToWrd">t</td>
TgtCellBare(t) == Td(<<"ToWrd">>, <<TextNode(t)>>)

\* <td>g<i class="Fr2">q</i>a</td>
DefCellMixed ==
    Td(<<>>, <<TextNode(<<"g">>), Element("i", <<"Fr2">>, <<"q">>), TextNode(<<"a">>)>>)

TwoClassTargetRow ==
    Tr(<<"even">>, None, <<PlainCell, EmptyCell, TgtCellTwoClasses(<<"t">>)>>)

BareHeadRow ==
    Tr(<<"even">>, None, <<SrcCellBare(<<"h">>), PlainCell, TgtCellBare(<<"t">>)>>)

BareHeadNoTextRow ==
    Tr(<<"even">>, None, <<SrcCellBare(<<"h">>), EmptyCell, TgtCellBare(<<"t">>)>>)

BlankTargetRow == Tr(<<"even">>, None, <<PlainCell, EmptyCell, TgtCell(<<" ">>)>>)

ParenTargetRow == Tr(<<"even">>, None, <<PlainCell, EmptyCell, TgtCell(<<"(", ")">>)>>)

MixedDefinitionRow ==
    Tr(<<"even">>, None, <<SrcCell(<<"h">>), DefCellMixed, TgtCell(<<"t">>)>>)

BuildRows ==
    {HeadRow, HeadRow2, SenseRow, PhraseRow, NoteRow, NoCellRow, WideRow,
     NoTargetClassRow, NoTargetTextRow, NoStrongRow, NoDefinitionRow,
     ParenDefinitionRow, ParenSenseRow, TwoClassTargetRow, BareHeadRow,
     BareHeadNoTextRow, BlankTargetRow, ParenTargetRow, MixedDefinitionRow}

\* <tr class="langHeader"><td class="FrWrd">English</td><td></td>
\* <td class="ToWrd">Spanish</td></tr>
LangHeaderRow ==
    Tr(<<"langHeader">>, None,
       <<Td(<<"FrWrd">>, <<TextNode(<<"E">>)>>), EmptyCell, Td(<<"ToWrd">>, <<TextNode(<<"S">>)>>)>>)

\* <tr class="wrtopsection" id="enes0"><td id="regular">P</td></tr>
TopSectionRow ==
    Tr(<<"wrtopsection">>, <<"e", "n", "e", "s", "0">>, <<Td(<<>>, <<TextNode(<<"P">>)>>)>>)

HeadRowEs ==
    Tr(<<"odd">>, <<"e", "s", "e", "n", "2">>, <<SrcCell(<<"k">>), DefCell, TgtCell(<<"u">>)>>)

DocRows == {LangHeaderRow, TopSectionRow, HeadRow, HeadRowEs, SenseRow, NoteRow, WideRow}

\* the sequences of at most n elements of S
SeqsUpTo(S, n) == UNION {[1..k -> S] : k \in 0..n}

(***************************************************************************)
(* The configuration file (src/config.py; main.ConfigManager holds the     *)
(* same code).  A Python value is a record of its kind ("dict", "str",     *)
(* "none" or "tuple"), its string (for a str, and for a tuple the one      *)
(* string it holds) and its entries (for a dict, a function of its keys).  *)
(* A YAML document is a tree of nodes with the tag the dumper writes.      *)
(***************************************************************************)
PyNone == [kind |-> "none", str |-> "", map |-> <<>>]

PyStr(s) == [kind |-> "str", str |-> s, map |-> <<>>]

\* the tuple (s,)
PyTuple(s) == [kind |-> "tuple", str |-> s, map |-> <<>>]

PyDict(m) == [kind |-> "dict", str |-> "", map |-> m]

YamlNode(tag, s, m) == [tag |-> tag, str |-> s, map |-> m]

RECURSIVE yaml_dump(_)
\* yaml.dump: the default Dumper writes a dict as a mapping, a str as a
\* string scalar, None as null and a tuple under the tag !!python/tuple
yaml_dump(v) ==
    IF v.kind = "dict"
    THEN YamlNode("map", "", [k \in DOMAIN v.map |-> yaml_dump(v.map[k])])
    ELSE IF v.kind = "str" THEN YamlNode("str", v.str, <<>>)
    ELSE IF v.kind = "none" THEN YamlNode("null", "", <<>>)
    ELSE YamlNode("python/tuple", v.str, <<>>)

RECURSIVE yaml_safe_load(_)
\* yaml.safe_load: the SafeLoader builds mappings, strings and null, gives
\* None for an empty stream, and raises on any other tag and on a stream
\* that is not YAML
yaml_safe_load(node) ==
    IF node.tag = "map"
    THEN LET items == [k \in DOMAIN node.map |-> yaml_safe_load(node.map[k])] IN
         IF \E k \in DOMAIN node.map : items[k].exc # "none"
         THEN Raise("ConstructorError", "could not determine a constructor")
         ELSE Ok(PyDict([k \in DOMAIN node.map |-> items[k].val]))
    ELSE IF node.tag = "str" THEN Ok(PyStr(node.str))
    ELSE IF node.tag \in {"null", "empty"} THEN Ok(PyNone)
    ELSE IF node.tag = "invalid" THEN Raise("ScannerError", "not a YAML stream")
    ELSE Raise("ConstructorError", "could not determine a constructor")

\* os.path.exists(CONFIG_FILE_NAME) is False
NoFile == [exists |-> FALSE, doc |-> YamlNode("empty", "", <<>>)]

File(doc) == [exists |-> TRUE, doc |-> doc]

\* bool(v) is False
IsFalsy(v) ==
    \/ v.kind = "none"
    \/ v.kind = "str" /\ v.str = ""
    \/ v.kind = "dict" /\ DOMAIN v.map = {}

\* config.py lines 8-21
load_config(file) ==
    IF ~file.exists THEN PyDict(<<>>)
    ELSE LET r == yaml_safe_load(file.doc) IN
         IF r.exc # "none" THEN PyDict(<<>>)
         ELSE IF IsFalsy(r.val) THEN PyDict(<<>>)
         ELSE r.val

\* save_config writing the file without its last top-level entry
SaveConfigDropsEntry(file, c, can_write) ==
    IF ~can_write THEN [ret |-> FALSE, file |-> file]
    ELSE [ret |-> TRUE,
          file |-> File(yaml_dump(
              IF DOMAIN c.map = {} THEN c
              ELSE PyDict([k \in DOMAIN c.map \ {CHOOSE x \in DOMAIN c.map : TRUE}
                              |-> c.map[k]])))]

\* config.py lines 24-37: gives the returned flag and the file afterwards
save_config(file, c, can_write) ==
    IF ~can_write THEN [ret |-> FALSE, file |-> file]
    ELSE [ret |-> TRUE, file |-> File(yaml_dump(c))]

\* the dicts with keys among Keys and values among Vals
DictsOver(Keys, Vals) == {PyDict(m) : m \in UNION {[D -> Vals] : D \in SUBSET Keys}}

SectionKeys == {"mochi", "deepl"}

EntryKeys == {"api_key", "selected_deck_id"}

\* the values of an entry: a key, None, and a value only Python has
Leaves == {PyStr("k"), PyNone, PyTuple("k")}

\* the configuration dicts save_config is called with
Configs == DictsOver(SectionKeys, Leaves \cup DictsOver(EntryKeys, Leaves))

\* the files config.yaml can be before the program runs: missing, empty,
\* not YAML, or holding a configuration
Files ==
    {NoFile, File(YamlNode("empty", "", <<>>)), File(YamlNode("invalid", "", <<>>)),
     File(yaml_dump(PyDict([k \in {"mochi"} |->
                               PyDict([e \in {"api_key"} |-> PyStr("k")])])))}

(***************************************************************************)
(* The cards file and the translation backends (src/main.py).  cards.yaml  *)
(* is either missing, not YAML, or the list yaml.dump wrote: one mapping   *)
(* per card, each value a scalar with the tag the dumper gives it.         *)
(***************************************************************************)
Card(id, front, back, created_at, language_pair) ==
    [id |-> id, front |-> front, back |-> back, created_at |-> created_at,
     language_pair |-> language_pair]

ScalarInt(n) == [tag |-> "int", val |-> n]

ScalarStr(s) == [tag |-> "str", val |-> s]

\* dataclasses.asdict(card) as yaml.dump writes it
asdict(card) ==
    [id |-> ScalarInt(card.id), front |-> ScalarStr(card.front),
     back |-> ScalarStr(card.back), created_at |-> ScalarStr(card.created_at),
     language_pair |-> ScalarStr(card.language_pair)]

\* Card(**card_data) on a mapping yaml.safe_load built
CardOf(card_data) ==
    Card(card_data.id.val, card_data.front.val, card_data.back.val,
         card_data.created_at.val, card_data.language_pair.val)

\* os.path.exists(CARDS_FILE_NAME) is False
NoCardsFile == [exists |-> FALSE, tag |-> "empty", items |-> <<>>]

\* a cards.yaml that yaml.safe_load cannot parse
InvalidCardsFile == [exists |-> TRUE, tag |-> "invalid", items |-> <<>>]

\* main.py lines 533-538
DumpCards(cards) ==
    [exists |-> TRUE, tag |-> "seq", items |-> [i \in 1..Len(cards) |-> asdict(cards[i])]]

\* main.py lines 495-509
load_existing_cards(file) ==
    IF ~file.exists THEN <<>>
    ELSE IF file.tag # "seq" THEN <<>>
    ELSE [i \in 1..Len(file.items) |-> CardOf(file.items[i])]

\* a translation a backend returned: None, or a text
NoText == [is_none |-> TRUE, text |-> ""]

Text(t) == [is_none |-> FALSE, text |-> t]

\* the answer of a backend: the request raised, or a body
RequestFailed == [raised |-> TRUE, responseStatus |-> 0, translatedText |-> ""]

Response(status, t) == [raised |-> FALSE, responseStatus |-> status, translatedText |-> t]

\* main.py lines 31-56
translate_with_mymemory(response) ==
    IF response.raised THEN NoText
    ELSE IF response.responseStatus # 200 THEN NoText
    ELSE Text(response.translatedText)

\* main.py lines 59-81: DeepLException gives None, else result.text
translate_with_deepl(response) ==
    IF response.raised THEN NoText ELSE Text(response.translatedText)

\* IsTruthy accepting every translation that is not None
IsTruthyNotNone(translation) == ~translation.is_none

\* line 580: if translation
IsTruthy(translation) == ~translation.is_none /\ translation.text # ""

\* NewCard with front and back exchanged
NewCardSwapped(cards, from_text, to_text, from_language, to_language, now) ==
    Card(Len(cards) + 1, to_text, from_text, now, from_language \o "-" \o to_language)

\* NewCard numbering every card 1
NewCardIdOne(cards, from_text, to_text, from_language, to_language, now) ==
    Card(1, from_text, to_text, now, from_language \o "-" \o to_language)

\* lines 523-529
NewCard(cards, from_text, to_text, from_language, to_language, now) ==
    Card(Len(cards) + 1, from_text, to_text, now, from_language \o "-" \o to_language)

\* the attributes of a TraduzClient: mochi_client and deepl_translator are
\* set or None, selected_deck_id is a deck id or "" for None
NoClient == [mochi_client |-> FALSE, selected_deck_id |-> "", deepl_translator |-> FALSE]

\* lines 542, 551: self.mochi_client and self.selected_deck_id
MochiConfigured(c) == c.mochi_client /\ c.selected_deck_id # ""

\* save_card writing the file only when Mochi took the card
SaveCardMochiFirst(file, mochi, c, card_args, now, mochi_ok) ==
    LET cards == load_existing_cards(file)
        new_card == NewCard(cards, card_args[1], card_args[2], card_args[3], card_args[4], now)
        attempted == MochiConfigured(c)
        created == attempted /\ mochi_ok
    IN  [file |-> IF attempted /\ ~mochi_ok THEN file
                  ELSE DumpCards(Append(cards, new_card)),
         mochi |-> IF created
                   THEN Append(mochi, [deck_id |-> c.selected_deck_id,
                                       front |-> card_args[1], back |-> card_args[2]])
                   ELSE mochi,
         attempted |-> attempted,
         file_at_create |-> file,
         ret |-> new_card]

\* lines 511-557, card_args being <<from_text, to_text, from_language,
\* to_language>>: gives the file and the Mochi cards afterwards, whether
\* create_card was called, the file as it is at line 542 where create_card
\* is called, and the Card returned; mochi_ok is what
\* create_card returns when called (lines 166-197)
save_card(file, mochi, c, card_args, now, mochi_ok) ==
    LET cards == load_existing_cards(file)
        new_card == NewCard(cards, card_args[1], card_args[2], card_args[3], card_args[4], now)
        attempted == MochiConfigured(c)
        created == attempted /\ mochi_ok
    IN  [file |-> DumpCards(Append(cards, new_card)),
         mochi |-> IF created
                   THEN Append(mochi, [deck_id |-> c.selected_deck_id,
                                       front |-> card_args[1], back |-> card_args[2]])
                   ELSE mochi,
         attempted |-> attempted,
         file_at_create |-> DumpCards(Append(cards, new_card)),
         ret |-> new_card]

\* lines 568-578: the backend in use answers with response
Translate(c, response) ==
    IF c.deepl_translator THEN translate_with_deepl(response)
    ELSE translate_with_mymemory(response)

\* the value of call.card when no Card was returned
NoCard == Card(0, "", "", "", "")

\* the value of call before any call
NoCall ==
    [op |-> "none", query |-> "", from_lang |-> "", to_lang |-> "",
     response |-> RequestFailed, ret |-> FALSE, card |-> NoCard,
     attempted |-> FALSE, mochi_ok |-> FALSE, file_at_create |-> NoCardsFile,
     file_before |-> NoCardsFile, mochi_before |-> <<>>]

MaxCards == 2

Queries == {"hi"}

\* the texts a backend answers with, and the backs save_card is given
Texts == {"", "ho"}

LanguagePairs == {<<"en", "es">>}

Timestamps == {"T1", "T2"}

Responses == {RequestFailed} \cup {Response(st, t) : st \in {200, 403}, t \in Texts}

Clients ==
    [mochi_client : BOOLEAN, selected_deck_id : {"", "d1"}, deepl_translator : BOOLEAN]

(***************************************************************************)
(* The entries of the configuration (config.py lines 40-109, and the same  *)
(* methods of main.ConfigManager).  A helper gives the exception it ends   *)
(* with, the value it returns and the file as it leaves it.                *)
(***************************************************************************)
\* d.get(k, default) on a dict
DictGet(d, k, default) == IF k \in DOMAIN d.map THEN d.map[k] ELSE default

\* d[k] = v on a dict
DictSet(d, k, v) ==
    PyDict([x \in DOMAIN d.map \cup {k} |-> IF x = k THEN v ELSE d.map[x]])

HelperResult(e, v, file) == [exc |-> e, val |-> v, file |-> file]

\* config.get(section, {}).get(entry)
GetEntry(file, section, entry) ==
    LET c == load_config(file) IN
    IF c.kind # "dict" THEN HelperResult("AttributeError", PyNone, file)
    ELSE LET sec == DictGet(c, section, PyDict(<<>>)) IN
         IF sec.kind # "dict" THEN HelperResult("AttributeError", PyNone, file)
         ELSE HelperResult("none", DictGet(sec, entry, PyNone), file)

\* SaveEntry starting the section afresh on every save
SaveEntryFreshSection(file, section, entry, value, can_write) ==
    LET c == load_config(file)
        r == save_config(file, DictSet(c, section, DictSet(PyDict(<<>>), entry, value)),
                         can_write)
    IN  HelperResult("none", r.ret, r.file)

\* if section not in config: config[section] = {};
\* config[section][entry] = value; return save_config(config)
SaveEntry(file, section, entry, value, can_write) ==
    LET c == load_config(file) IN
    IF c.kind # "dict" THEN HelperResult("TypeError", FALSE, file)
    ELSE LET sec == DictGet(c, section, PyDict(<<>>)) IN
         IF sec.kind # "dict" THEN HelperResult("TypeError", FALSE, file)
         ELSE LET r == save_config(file, DictSet(c, section, DictSet(sec, entry, value)),
                                   can_write)
              IN  HelperResult("none", r.ret, r.file)

\* config.py lines 40-47
get_mochi_api_key(file) == GetEntry(file, "mochi", "api_key")

\* config.py lines 50-61
save_mochi_api_key(file, api_key, can_write) ==
    SaveEntry(file, "mochi", "api_key", PyStr(api_key), can_write)

\* config.py lines 64-71
get_deepl_api_key(file) == GetEntry(file, "deepl", "api_key")

\* config.py lines 74-85
save_deepl_api_key(file, api_key, can_write) ==
    SaveEntry(file, "deepl", "api_key", PyStr(api_key), can_write)

\* config.py lines 88-95
get_selected_deck_id(file) == GetEntry(file, "mochi", "selected_deck_id")

\* config.py lines 98-109
save_selected_deck_id(file, deck_id, can_write) ==
    SaveEntry(file, "mochi", "selected_deck_id", PyStr(deck_id), can_write)

(***************************************************************************)
(* The choice of a deck: TraduzClient._select_deck (main.py lines 376-425) *)
(* and select_mochi_deck (tradu/mochi.py lines 88-122).  A deck is its id; *)
(* what the user types is a string.                                        *)
(***************************************************************************)
MaxDecks == 2

DeckIds == <<"d1", "d2", "d3", "d4">>

\* the decks an account can hold: get_decks() gives them, [] on a failure
Accounts == {SubSeq(DeckIds, 1, n) : n \in 0..MaxDecks}

\* what the user can type at "Select a deck"
Choices == {"", "x"} \cup {ToString(n) : n \in 0..(MaxDecks + 1)}

\* int(choice) raises ValueError
NotANumber(choice) == \A n \in 0..9 : ToString(n) # choice

\* int(choice)
ParseInt(choice) == CHOOSE n \in 0..9 : ToString(n) = choice

\* line 416 / mochi.py line 115: the number typed selects a deck
IsValidChoice(choice, decks) ==
    /\ ~NotANumber(choice)
    /\ 0 <= ParseInt(choice) - 1
    /\ ParseInt(choice) - 1 < Len(decks)

\* main.py lines 417-421: after a valid choice _select_deck prints and
\* goes round the `while True` loop again, for there is no return
SelectDeckAfterChoice(pos) == pos

\* mochi.py lines 89-99: decks = get_all_mochi_decks(api_key) sits inside
\* `if existing_deck_id:`, so without a previous deck decks stays []
FetchDecks(existing_deck_id, account) ==
    IF existing_deck_id # "" THEN account ELSE <<>>

(***************************************************************************)
(* The card template: get_mochi_template (tradu/mochi.py lines 150-179)    *)
(* and MochiClient._get_template (main.py lines 92-127), the same code.    *)
(* A template is its id and its fields in the order of fields.values();    *)
(* a field is its name and its id.                                         *)
(***************************************************************************)
MaxTemplates == 2

MaxFields == 2

FieldNames == {"Front", "Back", "Notes"}

Triple(template_id, front_id, back_id) ==
    [template_id |-> template_id, front_id |-> front_id, back_id |-> back_id]

\* lines 159-162: one field_dict of the inner loop
FieldStep(st, field_dict) ==
    LET st1 == IF field_dict.name = "Front"
               THEN [st EXCEPT !.front_id = field_dict.id] ELSE st
    IN  IF field_dict.name = "Back" THEN [st1 EXCEPT !.back_id = field_dict.id] ELSE st1

RECURSIVE FieldLoop(_, _)
FieldLoop(st, fields) ==
    IF fields = <<>> THEN st ELSE FieldLoop(FieldStep(st, Head(fields)), Tail(fields))

\* lines 157-162: one template_dict of the outer loop
TemplateStep(st, template_dict) ==
    FieldLoop([st EXCEPT !.template_id = template_dict.id], template_dict.fields)

RECURSIVE TemplateLoop(_, _)
TemplateLoop(st, docs) ==
    IF docs = <<>> THEN st ELSE TemplateLoop(TemplateStep(st, Head(docs)), Tail(docs))

\* the answer to GET /templates: the request raised, or the list "docs"
TemplatesFailed == [raised |-> TRUE, docs |-> <<>>]

TemplatesData(docs) == [raised |-> FALSE, docs |-> docs]

\* mochi.py lines 150-179
get_mochi_template(templates_data) ==
    IF templates_data.raised THEN Triple("", "", "")
    ELSE LET st == TemplateLoop(Triple("", "", ""), templates_data.docs) IN
         IF st.front_id = "" \/ st.back_id = "" THEN Triple("", "", "") ELSE st

\* main.py lines 92-127
_get_template(templates_data) ==
    IF templates_data.raised THEN Triple("", "", "")
    ELSE LET st == TemplateLoop(Triple("", "", ""), templates_data.docs) IN
         IF st.front_id = "" \/ st.back_id = "" THEN Triple("", "", "") ELSE st

\* the template at position i of the list, with the given field names: its
\* id and the ids of its fields are its own
TemplateAt(i, names) ==
    [id |-> "t" \o ToString(i),
     fields |-> [j \in 1..Len(names) |->
                    [name |-> names[j], id |-> "f" \o ToString(i) \o ToString(j)]]]

VARIABLES text, once, twice, sanPc, group, built, rebuilt, buildPc,
          doc, translations, translation_objs, pc, error,
          config_file, writable, config, saved, loaded, cfgPc, recent,
          cards_file, mochi_cards, client, call, returned_cards,
          fn, account, has_client, existing_deck_id, use_existing, decks,
          selected_deck_id, choice, deck_ret, deckPc,
          templates, tpl_ret, tplPc

sanVars == <<text, once, twice, sanPc>>

buildVars == <<group, built, rebuilt, buildPc>>

\* doc: the tables of the document iterated so far; translations: the row
\* groups of the last regular table, each row as the document gave it;
\* pc: "running" in the loop over the tables, "returned" or "raised"
docVars == <<doc, translations, translation_objs, pc, error>>

\* config_file: config.yaml on disk; writable: open(config.yaml, "w")
\* succeeds; config: the argument of the last save_config; saved: what that
\* call returned; loaded: what the last load_config returned
\* recent: for each entry of the configuration the value the last
\* successful save_* gave it, None when it was never saved
cfgVars == <<config_file, writable, config, saved, loaded, cfgPc, recent>>

\* cards_file: cards.yaml on disk; mochi_cards: the cards created on
\* Mochi; client: the TraduzClient attributes; call: the last call and what
\* it returned; returned_cards: the Cards save_card returned, in call order
cardVars == <<cards_file, mochi_cards, client, call, returned_cards>>

\* fn: the function running; account: the decks Mochi holds; decks: the
\* local list of the function; use_existing and choice: what the user typed
\* last at either prompt; deck_ret: what the function returned, as a string
deckVars == <<fn, account, has_client, existing_deck_id, use_existing, decks,
              selected_deck_id, choice, deck_ret, deckPc>>

\* templates: the answer to GET /templates; tpl_ret: the triple returned
tplVars == <<templates, tpl_ret, tplPc>>

vars == <<sanVars, buildVars, docVars, cfgVars, cardVars, deckVars, tplVars>>

\* value of a result that has not been computed yet
Pending == [exc |-> "pending", msg |-> "", val |-> None]

SanIdle ==
    /\ text = <<>>
    /\ once = Pending
    /\ twice = Pending
    /\ sanPc = "idle"

BuildIdle ==
    /\ group = <<>>
    /\ built = Pending
    /\ rebuilt = Pending
    /\ buildPc = "idle"

NoError == [exc |-> "none", msg |-> ""]

DocIdle ==
    /\ doc = <<>>
    /\ translations = <<>>
    /\ translation_objs = <<>>
    /\ pc = "idle"
    /\ error = NoError

NoEntries ==
    [mochi_api_key |-> PyNone, deepl_api_key |-> PyNone, selected_deck_id |-> PyNone]

ConfigIdle ==
    /\ recent = NoEntries
    /\ config_file = NoFile
    /\ writable = TRUE
    /\ config = PyNone
    /\ saved = FALSE
    /\ loaded = PyNone
    /\ cfgPc = "idle"

CardIdle ==
    /\ cards_file = NoCardsFile
    /\ mochi_cards = <<>>
    /\ client = NoClient
    /\ call = NoCall
    /\ returned_cards = <<>>

DeckIdle ==
    /\ fn = "none"
    /\ account = <<>>
    /\ has_client = FALSE
    /\ existing_deck_id = ""
    /\ use_existing = ""
    /\ decks = <<>>
    /\ selected_deck_id = ""
    /\ choice = ""
    /\ deck_ret = "pending"
    /\ deckPc = "idle"

TplIdle ==
    /\ templates = TemplatesFailed
    /\ tpl_ret = Triple("", "", "")
    /\ tplPc = "idle"

(***************************************************************************)
(* _sanitize_string applied to a string, and to its own result             *)
(***************************************************************************)
SanInit ==
    /\ text \in StringsUpTo(MaxLen)
    /\ once = Pending
    /\ twice = Pending
    /\ sanPc = "start"
    /\ BuildIdle
    /\ DocIdle
    /\ ConfigIdle
    /\ CardIdle
    /\ DeckIdle
    /\ TplIdle

Sanitize ==
    /\ sanPc = "start"
    /\ once' = _sanitize_string(text)
    /\ sanPc' = "once"
    /\ UNCHANGED <<text, twice, buildVars, docVars, cfgVars, cardVars, deckVars, tplVars>>

SanitizeAgain ==
    /\ sanPc = "once"
    /\ twice' = SanitizeTwice(text)
    /\ sanPc' = "twice"
    /\ UNCHANGED <<text, once, buildVars, docVars, cfgVars, cardVars, deckVars, tplVars>>

SanNext == Sanitize \/ SanitizeAgain

SpecSan == SanInit /\ [][SanNext]_vars

(***************************************************************************)
(* make_translation_from_trs applied to a row group, and again to the rows *)
(* as the first call left them                                             *)
(***************************************************************************)
BuildInit ==
    /\ group \in SeqsUpTo(BuildRows, MaxGroup)
    /\ built = Pending
    /\ rebuilt = Pending
    /\ buildPc = "start"
    /\ SanIdle
    /\ DocIdle
    /\ ConfigIdle
    /\ CardIdle
    /\ DeckIdle
    /\ TplIdle

Build ==
    /\ buildPc = "start"
    /\ built' = make_translation_from_trs(group)
    /\ buildPc' = "built"
    /\ UNCHANGED <<group, rebuilt, sanVars, docVars, cfgVars, cardVars, deckVars, tplVars>>

BuildAgain ==
    /\ buildPc = "built"
    /\ rebuilt' = make_translation_from_trs(built.trs)
    /\ buildPc' = "rebuilt"
    /\ UNCHANGED <<group, built, sanVars, docVars, cfgVars, cardVars, deckVars, tplVars>>

BuildNext == Build \/ BuildAgain

SpecBuild == BuildInit /\ [][BuildNext]_vars

(***************************************************************************)
(* make_translations: one step per table of the document                   *)
(***************************************************************************)
RECURSIVE RowCount(_)
RowCount(tables) ==
    IF tables = <<>> THEN 0 ELSE Len(Head(tables).trs) + RowCount(Tail(tables))

Init ==
    /\ doc = <<>>
    /\ translations = <<>>
    /\ translation_objs = <<>>
    /\ pc = "running"
    /\ error = NoError
    /\ SanIdle
    /\ BuildIdle
    /\ ConfigIdle
    /\ CardIdle
    /\ DeckIdle
    /\ TplIdle

\* the tables a document of at most n more rows can continue with
TablesWithin(n) == [regular : BOOLEAN, trs : SeqsUpTo(DocRows, n)]

\* SkipTable without the test of line 160: the table is grouped and built
SkipTableBuilds(table) ==
    /\ pc = "running"
    /\ Len(doc) < MaxTables
    /\ ~table.regular
    /\ doc' = Append(doc, table)
    /\ translations' = GroupRows(table.trs)
    /\ \E r \in {BuildAll(translation_objs, translations')} :
       /\ translation_objs' = r.objs
       /\ error' = [exc |-> r.exc, msg |-> r.msg]
       /\ pc' = IF r.exc = "none" THEN "running" ELSE "raised"
    /\ UNCHANGED <<sanVars, buildVars, cfgVars, cardVars, deckVars, tplVars>>

\* lines 160-161: a table without td#regular is passed over
SkipTable(table) ==
    /\ pc = "running"
    /\ Len(doc) < MaxTables
    /\ ~table.regular
    /\ doc' = Append(doc, table)
    /\ UNCHANGED <<translations, translation_objs, pc, error, sanVars, buildVars, cfgVars, cardVars, deckVars, tplVars>>

\* lines 162-179: the body of the loop for a table with td#regular
ProcessTable(table) ==
    /\ pc = "running"
    /\ Len(doc) < MaxTables
    /\ table.regular
    /\ doc' = Append(doc, table)
    /\ translations' = GroupRows(table.trs)
    /\ \E r \in {BuildAll(translation_objs, translations')} :
       /\ translation_objs' = r.objs
       /\ error' = [exc |-> r.exc, msg |-> r.msg]
       /\ pc' = IF r.exc = "none" THEN "running" ELSE "raised"
    /\ UNCHANGED <<sanVars, buildVars, cfgVars, cardVars, deckVars, tplVars>>

\* line 183
Return ==
    /\ pc = "running"
    /\ pc' = "returned"
    /\ UNCHANGED <<doc, translations, translation_objs, error, sanVars, buildVars, cfgVars, cardVars, deckVars, tplVars>>

Next ==
    \/ \E table \in TablesWithin(MaxRows - RowCount(doc)) : SkipTable(table)
    \/ \E table \in TablesWithin(MaxRows - RowCount(doc)) : ProcessTable(table)
    \/ Return

Spec == Init /\ [][Next]_vars

\* rows of documents whose target cells can be blank
BlankRows == {LangHeaderRow, HeadRow, HeadRowEs, BlankTargetRow, WideRow}

\* the tables of such a document of at most n more rows
BlankTablesWithin(n) == [regular : BOOLEAN, trs : SeqsUpTo(BlankRows, n)]

NextBlank ==
    \/ \E table \in BlankTablesWithin(MaxRows - RowCount(doc)) : SkipTable(table)
    \/ \E table \in BlankTablesWithin(MaxRows - RowCount(doc)) : ProcessTable(table)
    \/ Return

\* make_translations on documents with blank target cells
SpecBlank == Init /\ [][NextBlank]_vars

(***************************************************************************)
(* save_config(config) followed by load_config()                           *)
(***************************************************************************)
ConfigInit ==
    /\ config_file \in Files
    /\ writable \in BOOLEAN
    /\ config = PyNone
    /\ saved = FALSE
    /\ loaded = PyNone
    /\ cfgPc = "start"
    /\ recent = NoEntries
    /\ SanIdle
    /\ BuildIdle
    /\ DocIdle
    /\ CardIdle
    /\ DeckIdle
    /\ TplIdle

SaveConfig(c) ==
    /\ cfgPc = "start"
    /\ config' = c
    /\ \E r \in {save_config(config_file, c, writable)} :
       /\ saved' = r.ret
       /\ config_file' = r.file
    /\ cfgPc' = "saved"
    /\ UNCHANGED <<writable, loaded, recent, sanVars, buildVars, docVars, cardVars, deckVars, tplVars>>

LoadConfig ==
    /\ cfgPc = "saved"
    /\ loaded' = load_config(config_file)
    /\ cfgPc' = "loaded"
    /\ UNCHANGED <<config_file, writable, config, saved, recent, sanVars, buildVars, docVars, cardVars, deckVars, tplVars>>

ConfigNext == (\E c \in Configs : SaveConfig(c)) \/ LoadConfig

SpecConfig == ConfigInit /\ [][ConfigNext]_vars

(***************************************************************************)
(* TraduzClient.translate_query and TraduzClient.save_card                 *)
(***************************************************************************)
CardsInit ==
    /\ cards_file \in {NoCardsFile, InvalidCardsFile}
    /\ mochi_cards = <<>>
    /\ client \in Clients
    /\ call = NoCall
    /\ returned_cards = <<>>
    /\ SanIdle
    /\ BuildIdle
    /\ DocIdle
    /\ ConfigIdle
    /\ DeckIdle
    /\ TplIdle

\* lines 559-585, with the answer of the backend, the time of
\* datetime.now() and what create_card returns if it is called
TranslateQuery(query, langs, response, now, mochi_ok) ==
    /\ Len(load_existing_cards(cards_file)) < MaxCards
    /\ \E translation \in {Translate(client, response)} :
       IF IsTruthy(translation)
       THEN \E r \in {save_card(cards_file, mochi_cards, client,
                                <<query, translation.text, langs[1], langs[2]>>,
                                now, mochi_ok)} :
            /\ cards_file' = r.file
            /\ mochi_cards' = r.mochi
            /\ returned_cards' = Append(returned_cards, r.ret)
            /\ call' = [op |-> "translate_query", query |-> query,
                        from_lang |-> langs[1], to_lang |-> langs[2],
                        response |-> response, ret |-> TRUE, card |-> r.ret,
                        attempted |-> r.attempted, mochi_ok |-> mochi_ok,
                        file_at_create |-> r.file_at_create,
                        file_before |-> cards_file, mochi_before |-> mochi_cards]
       ELSE /\ call' = [op |-> "translate_query", query |-> query,
                        from_lang |-> langs[1], to_lang |-> langs[2],
                        response |-> response, ret |-> FALSE, card |-> NoCard,
                        attempted |-> FALSE, mochi_ok |-> mochi_ok,
                        file_at_create |-> cards_file,
                        file_before |-> cards_file, mochi_before |-> mochi_cards]
            /\ UNCHANGED <<cards_file, mochi_cards, returned_cards>>
    /\ UNCHANGED <<client, sanVars, buildVars, docVars, cfgVars, deckVars, tplVars>>

\* lines 511-557 called on their own
SaveCard(from_text, to_text, langs, now, mochi_ok) ==
    /\ Len(load_existing_cards(cards_file)) < MaxCards
    /\ \E r \in {save_card(cards_file, mochi_cards, client,
                           <<from_text, to_text, langs[1], langs[2]>>, now, mochi_ok)} :
       /\ cards_file' = r.file
       /\ mochi_cards' = r.mochi
       /\ returned_cards' = Append(returned_cards, r.ret)
       /\ call' = [op |-> "save_card", query |-> from_text,
                   from_lang |-> langs[1], to_lang |-> langs[2],
                   response |-> Response(200, to_text), ret |-> TRUE, card |-> r.ret,
                   attempted |-> r.attempted, mochi_ok |-> mochi_ok,
                        file_at_create |-> r.file_at_create,
                   file_before |-> cards_file, mochi_before |-> mochi_cards]
    /\ UNCHANGED <<client, sanVars, buildVars, docVars, cfgVars, deckVars, tplVars>>

CardsNext ==
    \/ \E query \in Queries, langs \in LanguagePairs, response \in Responses,
          now \in Timestamps, mochi_ok \in BOOLEAN :
           TranslateQuery(query, langs, response, now, mochi_ok)
    \/ \E from_text \in Queries, to_text \in Texts, langs \in LanguagePairs,
          now \in Timestamps, mochi_ok \in BOOLEAN :
           SaveCard(from_text, to_text, langs, now, mochi_ok)

SpecCards == CardsInit /\ [][CardsNext]_vars

(***************************************************************************)
(* The choice of a deck, one step per prompt the user answers              *)
(***************************************************************************)
\* the config.yaml _select_deck can find: none, or one naming a deck
DeckFiles ==
    {NoFile,
     File(yaml_dump(PyDict([k \in {"mochi"} |->
                               PyDict([e \in {"selected_deck_id"} |-> PyStr("d9")])])))}

DeckInit ==
    /\ fn \in {"_select_deck", "select_mochi_deck"}
    /\ account \in Accounts
    /\ has_client \in BOOLEAN
    /\ existing_deck_id \in IF fn = "_select_deck" THEN {""} ELSE {"", "d9"}
    /\ config_file \in IF fn = "_select_deck" THEN DeckFiles ELSE {NoFile}
    /\ fn = "select_mochi_deck" => has_client
    /\ writable \in IF fn = "_select_deck" THEN BOOLEAN ELSE {TRUE}
    /\ decks = <<>>
    /\ selected_deck_id = ""
    /\ choice = ""
    /\ use_existing = ""
    /\ deck_ret = "pending"
    /\ deckPc = "start"
    /\ recent = NoEntries
    /\ config = PyNone
    /\ saved = FALSE
    /\ loaded = PyNone
    /\ cfgPc = "idle"
    /\ SanIdle
    /\ BuildIdle
    /\ DocIdle
    /\ CardIdle
    /\ TplIdle

\* main.py lines 376-398: up to the first "Select a deck" prompt; answer is
\* what the user types if asked "Use previously selected deck?"
SelectDeckStart(answer) ==
    /\ fn = "_select_deck"
    /\ deckPc = "start"
    /\ \E e \in {get_selected_deck_id(config_file)} :
       LET existing == IF e.val.kind = "str" THEN e.val.str ELSE "" IN
       IF ~has_client
       THEN /\ deck_ret' = "False"
            /\ deckPc' = "returned"
            /\ UNCHANGED <<existing_deck_id, use_existing, selected_deck_id, decks>>
       ELSE IF existing # "" /\ answer \in {"y", "yes"}
       THEN /\ existing_deck_id' = existing
            /\ use_existing' = answer
            /\ selected_deck_id' = existing
            /\ deck_ret' = "True"
            /\ deckPc' = "returned"
            /\ UNCHANGED decks
       ELSE /\ existing_deck_id' = existing
            /\ use_existing' = IF existing # "" THEN answer ELSE ""
            /\ decks' = account
            /\ deck_ret' = IF account = <<>> THEN "False" ELSE "pending"
            /\ deckPc' = IF account = <<>> THEN "returned" ELSE "prompt"
            /\ UNCHANGED selected_deck_id
    /\ UNCHANGED <<fn, account, has_client, choice, sanVars, buildVars, docVars,
                   cfgVars, cardVars, tplVars>>

\* main.py lines 411-425: one turn of the `while True` loop
SelectDeckChoose(typed) ==
    /\ fn = "_select_deck"
    /\ deckPc = "prompt"
    /\ choice' = typed
    /\ IF IsValidChoice(typed, decks)
       THEN /\ selected_deck_id' = decks[ParseInt(typed)]
            /\ \E r \in {save_selected_deck_id(config_file, decks[ParseInt(typed)],
                                               writable)} :
               /\ config_file' = r.file
               /\ saved' = r.val
               /\ recent' = IF r.val
                            THEN [recent EXCEPT !.selected_deck_id = PyStr(decks[ParseInt(typed)])]
                            ELSE recent
            /\ deckPc' = SelectDeckAfterChoice(deckPc)
            /\ deck_ret' = IF SelectDeckAfterChoice(deckPc) = "returned"
                           THEN "True" ELSE deck_ret
       ELSE UNCHANGED <<selected_deck_id, config_file, saved, recent, deckPc, deck_ret>>
    /\ UNCHANGED <<fn, account, has_client, existing_deck_id, use_existing, decks,
                   writable, config, loaded, cfgPc,
                   sanVars, buildVars, docVars, cardVars, tplVars>>

\* mochi.py lines 88-108: up to the first "Select a deck" prompt
MochiSelectStart(answer) ==
    /\ fn = "select_mochi_deck"
    /\ deckPc = "start"
    /\ IF existing_deck_id # "" /\ answer \in {"y", "yes"}
       THEN /\ use_existing' = answer
            /\ selected_deck_id' = existing_deck_id
            /\ deck_ret' = existing_deck_id
            /\ deckPc' = "returned"
            /\ UNCHANGED decks
       ELSE \E fetched \in {FetchDecks(existing_deck_id, account)} :
            /\ use_existing' = IF existing_deck_id # "" THEN answer ELSE ""
            /\ decks' = fetched
            /\ deck_ret' = IF fetched = <<>> THEN "None" ELSE "pending"
            /\ deckPc' = IF fetched = <<>> THEN "returned" ELSE "prompt"
            /\ UNCHANGED selected_deck_id
    /\ UNCHANGED <<fn, account, has_client, existing_deck_id, choice,
                   sanVars, buildVars, docVars, cfgVars, cardVars, tplVars>>

\* mochi.py lines 110-122: one turn of the `while True` loop
MochiSelectChoose(typed) ==
    /\ fn = "select_mochi_deck"
    /\ deckPc = "prompt"
    /\ choice' = typed
    /\ IF IsValidChoice(typed, decks)
       THEN /\ deck_ret' = decks[ParseInt(typed)]
            /\ deckPc' = "returned"
       ELSE UNCHANGED <<deck_ret, deckPc>>
    /\ UNCHANGED <<fn, account, has_client, existing_deck_id, use_existing, decks,
                   selected_deck_id, sanVars, buildVars, docVars, cfgVars, cardVars,
                   tplVars>>

Answers == {"y", "n"}

\* the user types a number that selects a deck
ValidChoice ==
    \/ \E typed \in Choices : IsValidChoice(typed, decks) /\ SelectDeckChoose(typed)
    \/ \E typed \in Choices : IsValidChoice(typed, decks) /\ MochiSelectChoose(typed)

DeckNext ==
    \/ \E answer \in Answers : SelectDeckStart(answer)
    \/ \E typed \in Choices : SelectDeckChoose(typed)
    \/ \E answer \in Answers : MochiSelectStart(answer)
    \/ \E typed \in Choices : MochiSelectChoose(typed)

SpecDeck == DeckInit /\ [][DeckNext]_vars

\* the user answers every prompt, and the input eventually contains a number
\* that selects a deck
SpecDeckFair == SpecDeck /\ WF_vars(DeckNext) /\ WF_vars(ValidChoice)

(***************************************************************************)
(* The three entries of the configuration saved in any order               *)
(***************************************************************************)
\* the keys and deck ids the helpers are given
EntryValues == {"", "k", "j"}

HelpersInit ==
    /\ config_file \in
           {NoFile, File(YamlNode("empty", "", <<>>)), File(YamlNode("invalid", "", <<>>))}
    /\ writable \in BOOLEAN
    /\ config = PyNone
    /\ saved = FALSE
    /\ loaded = PyNone
    /\ cfgPc = "start"
    /\ recent = NoEntries
    /\ SanIdle
    /\ BuildIdle
    /\ DocIdle
    /\ CardIdle
    /\ DeckIdle
    /\ TplIdle

\* config.py lines 50-61
SaveMochiApiKey(api_key) ==
    /\ cfgPc # "idle"
    /\ \E r \in {save_mochi_api_key(config_file, api_key, writable)} :
       /\ config_file' = r.file
       /\ saved' = r.val
       /\ recent' = IF r.val THEN [recent EXCEPT !.mochi_api_key = PyStr(api_key)]
                    ELSE recent
    /\ cfgPc' = "save_mochi_api_key"
    /\ UNCHANGED <<writable, config, loaded, sanVars, buildVars, docVars, cardVars,
                   deckVars, tplVars>>

\* config.py lines 74-85
SaveDeeplApiKey(api_key) ==
    /\ cfgPc # "idle"
    /\ \E r \in {save_deepl_api_key(config_file, api_key, writable)} :
       /\ config_file' = r.file
       /\ saved' = r.val
       /\ recent' = IF r.val THEN [recent EXCEPT !.deepl_api_key = PyStr(api_key)]
                    ELSE recent
    /\ cfgPc' = "save_deepl_api_key"
    /\ UNCHANGED <<writable, config, loaded, sanVars, buildVars, docVars, cardVars,
                   deckVars, tplVars>>

\* config.py lines 98-109
SaveSelectedDeckId(deck_id) ==
    /\ cfgPc # "idle"
    /\ \E r \in {save_selected_deck_id(config_file, deck_id, writable)} :
       /\ config_file' = r.file
       /\ saved' = r.val
       /\ recent' = IF r.val THEN [recent EXCEPT !.selected_deck_id = PyStr(deck_id)]
                    ELSE recent
    /\ cfgPc' = "save_selected_deck_id"
    /\ UNCHANGED <<writable, config, loaded, sanVars, buildVars, docVars, cardVars,
                   deckVars, tplVars>>

HelpersNext ==
    \/ \E api_key \in EntryValues : SaveMochiApiKey(api_key)
    \/ \E api_key \in EntryValues : SaveDeeplApiKey(api_key)
    \/ \E deck_id \in EntryValues : SaveSelectedDeckId(deck_id)

SpecHelpers == HelpersInit /\ [][HelpersNext]_vars

(***************************************************************************)
(* The lookup of the card template                                         *)
(***************************************************************************)
TemplateInit ==
    /\ templates \in {TemplatesFailed, TemplatesData(<<>>)}
    /\ tpl_ret = Triple("", "", "")
    /\ tplPc = "start"
    /\ SanIdle
    /\ BuildIdle
    /\ DocIdle
    /\ ConfigIdle
    /\ CardIdle
    /\ DeckIdle

\* the account holds one more template, with fields of the given names
AddTemplate(names) ==
    /\ tplPc = "start"
    /\ ~templates.raised
    /\ Len(templates.docs) < MaxTemplates
    /\ templates' = TemplatesData(Append(templates.docs,
                                         TemplateAt(Len(templates.docs) + 1, names)))
    /\ UNCHANGED <<tpl_ret, tplPc, sanVars, buildVars, docVars, cfgVars, cardVars, deckVars>>

\* tradu/mochi.py lines 150-179
GetMochiTemplate ==
    /\ tplPc = "start"
    /\ tpl_ret' = get_mochi_template(templates)
    /\ tplPc' = "get_mochi_template"
    /\ UNCHANGED <<templates, sanVars, buildVars, docVars, cfgVars, cardVars, deckVars>>

\* main.py lines 92-127
GetTemplate ==
    /\ tplPc = "start"
    /\ tpl_ret' = _get_template(templates)
    /\ tplPc' = "_get_template"
    /\ UNCHANGED <<templates, sanVars, buildVars, docVars, cfgVars, cardVars, deckVars>>

TemplateNext ==
    \/ \E names \in SeqsUpTo(FieldNames, MaxFields) : AddTemplate(names)
    \/ GetMochiTemplate
    \/ GetTemplate

SpecTemplate == TemplateInit /\ [][TemplateNext]_vars
(***************************************************************************)
(* Properties of make_translations (specification Spec)                    *)
(***************************************************************************)
\* the last table iterated was a regular one: translations holds its groups
LastIsRegular == doc # <<>> /\ doc[Len(doc)].regular

LastRows == doc[Len(doc)].trs

\* the row's id starts with a direction prefix
HasDirectionPrefix(tr) ==
    /\ tr.id # None
    /\ Len(tr.id) >= 4
    /\ SubSeq(tr.id, 1, 4) \in {<<"e", "n", "e", "s">>, <<"e", "s", "e", "n">>}

\* the row carries the langHeader or the wrtopsection marker
CarriesHeaderMarker(tr) == HasToken(tr.cls, "langHeader") \/ HasToken(tr.cls, "wrtopsection")

\* C1: a document whose regular tables have no data rows (no rows, or only
\* langHeader/wrtopsection rows) is parsed without an error and yields no
\* Translation.
C1_EmptyTableIsNoError ==
    (/\ \E t \in 1..Len(doc) : doc[t].regular
     /\ \A t \in 1..Len(doc) :
          doc[t].regular =>
              \A i \in 1..Len(doc[t].trs) : CarriesHeaderMarker(doc[t].trs[i]))
    => (pc # "raised" /\ translation_objs = <<>>)

\* C2: a row with a direction-prefix id closes the open group when it is
\* non-empty and is the first member of the next group: every group after
\* the first starts with such a row, no such row is anywhere but first in
\* its group, and the rows A(enes), B, C(enes), D give exactly [A,B], [C,D].
C2_BoundaryDrivenGrouping ==
    LastIsRegular =>
        /\ \A g \in 2..Len(translations) :
              translations[g] # <<>> /\ HasDirectionPrefix(translations[g][1])
        /\ \A g \in 1..Len(translations) :
              \A j \in 2..Len(translations[g]) : ~HasDirectionPrefix(translations[g][j])
        /\ (/\ Len(LastRows) = 4
            /\ \A i \in 1..4 : ~CarriesHeaderMarker(LastRows[i])
            /\ HasDirectionPrefix(LastRows[1]) /\ ~HasDirectionPrefix(LastRows[2])
            /\ HasDirectionPrefix(LastRows[3]) /\ ~HasDirectionPrefix(LastRows[4]))
           => translations = <<SubSeq(LastRows, 1, 2), SubSeq(LastRows, 3, 4)>>

C2_Witness ==
    /\ LastIsRegular
    /\ LastRows = <<HeadRow, SenseRow, HeadRowEs, SenseRow>>
    /\ translations = <<<<HeadRow, SenseRow>>, <<HeadRowEs, SenseRow>>>>
    /\ pc = "running"

\* C3: a langHeader or wrtopsection row is in no row group, and the groups
\* are those of the table without these rows: such a row neither closes
\* nor starts a group, whatever its id.
C3_HeaderRowsNeverGrouped ==
    LastIsRegular =>
        /\ \A g \in 1..Len(translations) :
              \A j \in 1..Len(translations[g]) : ~CarriesHeaderMarker(translations[g][j])
        /\ translations
             = GroupRows(SelectSeq(LastRows, LAMBDA tr : ~CarriesHeaderMarker(tr)))

C3_Witness ==
    /\ LastIsRegular
    /\ LastRows = <<HeadRow, TopSectionRow, SenseRow>>
    /\ translations = <<<<HeadRow, SenseRow>>>>

(***************************************************************************)
(* Properties of _sanitize_string (specification SpecSan)                  *)
(***************************************************************************)
\* the string without surrounding whitespace, without one leading "(" and
\* without one trailing ")"
TrimmedOneParenOff(s) ==
    LET t == strip(s)
        u == IF t # <<>> /\ Head(t) = "(" THEN Tail(t) ELSE t
    IN  IF u # <<>> /\ u[Len(u)] = ")" THEN SubSeq(u, 1, Len(u) - 1) ELSE u

\* a sanitized string that has nothing left to take off
IsBare(s) ==
    s = <<>> \/ (Head(s) \notin {" ", "("} /\ s[Len(s)] \notin {" ", ")"})

\* C4 as stated: whenever both applications return, applying
\* _sanitize_string twice gives what applying it once gives.
C4_Idempotent_Original ==
    (sanPc = "twice" /\ once.exc = "none" /\ twice.exc = "none") => twice.val = once.val

\* C4 amended: applying _sanitize_string twice gives what applying it once
\* gives for every input whose sanitized value has no surrounding
\* whitespace, no leading "(" and no trailing ")".
C4_IdempotentOnBare ==
    (sanPc = "twice" /\ once.exc = "none" /\ IsBare(once.val)) => twice = once

C4_Witness ==
    /\ sanPc = "twice"
    /\ text = <<" ", "(", "a", ")">>
    /\ once = Ok(<<"a">>)
    /\ twice = Ok(<<"a">>)

\* C5: for every input _sanitize_string returns, without raising, the input
\* trimmed, with one leading "(" and one trailing ")" removed if present.
C5_SanitizeTotal ==
    sanPc # "start" => (once.exc = "none" /\ once.val = TrimmedOneParenOff(text))

(***************************************************************************)
(* Properties of make_translation_from_trs (specification SpecBuild)       *)
(***************************************************************************)
\* the call on group has returned a Translation
Returned == buildPc # "start" /\ built.exc = "none"

\* the rows of the group with three cells, in row order
FullRows == SelectSeq(group, LAMBDA tr : Len(tr.tds) = 3)

\* the row has three cells, the first with the source marker
IsSourceRow(tr) == Len(tr.tds) = 3 /\ CssClass(tr.tds[1], "FrWrd")

\* no cell of any row of the group carries the source marker
NoSourceMarker == \A i \in 1..Len(group) : ~TrCssClass(group[i], "FrWrd")

\* C6: a returned Translation has a from_word that is not None and at
\* least one ToWord.
C6_SourceAndTargetPresent ==
    Returned =>
        /\ built.val.from_word # NoFromWord
        /\ built.val.from_word.text # None
        /\ Len(built.val.to_words) >= 1

C6_Witness ==
    /\ Returned
    /\ group = <<NoteRow, HeadRow>>
    /\ built.val.from_word.text = <<"h">>
    /\ Len(built.val.to_words) = 1

\* C7 as stated: a returned Translation has as many ToWords as its group
\* has rows.
C7_OneTargetPerRow_Original ==
    Returned => Len(built.val.to_words) = Len(group)

\* C7 amended: a returned Translation has as many ToWords as its group has
\* rows of three cells.
C7_OneTargetPerFullRow ==
    Returned => Len(built.val.to_words) = Len(FullRows)

C7_Witness ==
    /\ Returned
    /\ group = <<HeadRow, NoteRow, SenseRow>>
    /\ Len(built.val.to_words) = 2

\* C8: in a returned Translation whose group begins with a source row,
\* from_word is the one built from that first row; a source row further
\* down does not replace it.
C8_SourceFromFirstRow ==
    (Returned /\ IsSourceRow(group[1])) =>
        built.val.from_word = SourceBranch(group[1].tds[1], group[1].tds[2]).from_word

\* C9: the to_words of a returned Translation are the ToWords of the
\* three-cell rows, in row order; two-cell and one-cell rows change
\* nothing: the call ends as it does on the group without them.
C9_TargetsOfFullRowsInOrder ==
    buildPc # "start" =>
        /\ built.exc = "none" =>
              /\ Len(built.val.to_words) = Len(FullRows)
              /\ \A j \in 1..Len(FullRows) :
                    built.val.to_words[j]
                      = create_to_word(FullRows[j].tds[2], FullRows[j].tds[3]).val
        /\ LET alone == make_translation_from_trs(
                            SelectSeq(group, LAMBDA tr : Len(tr.tds) \notin {1, 2}))
           IN  /\ built.exc = alone.exc
               /\ built.msg = alone.msg
               /\ built.val = alone.val

C9_Witness ==
    /\ Returned
    /\ group = <<HeadRow, PhraseRow, SenseRow>>
    /\ built.val.to_words
         = <<ToWord(<<"t">>, <<"n">>, <<>>), ToWord(<<"v">>, <<"n">>, <<"d">>)>>

\* every three-cell row of the group yields a ToWord
AllTargetsBuilt ==
    \A j \in 1..Len(FullRows) :
        create_to_word(FullRows[j].tds[2], FullRows[j].tds[3]).exc = "none"

\* all rows were processed, a ToWord was built for each three-cell row and
\* the call failed at the end for want of a from_word
FailedAtEnd ==
    /\ built.exc = "ValueError"
    /\ built.msg = "from_word should not be None"
    /\ built.processed = Len(group)
    /\ Len(built.built) = Len(FullRows)

\* C10 as stated: on a group without a source marker whose three-cell rows
\* all yield a ToWord, the call processes all rows and fails at the end.
C10_NoSourceFailsAtEnd_Original ==
    (buildPc # "start" /\ NoSourceMarker /\ AllTargetsBuilt) => FailedAtEnd

\* C10 amended: on a group without a source marker the call never returns
\* a Translation; when moreover every row has one, two or three cells and
\* every three-cell row yields a ToWord, it processes all rows and fails at
\* the end.
C10_NoSourceNeverReturns ==
    (buildPc # "start" /\ NoSourceMarker) =>
        /\ built.exc # "none"
        /\ (AllTargetsBuilt /\ \A i \in 1..Len(group) : Len(group[i].tds) \in 1..3)
           => FailedAtEnd

C10_Witness ==
    /\ buildPc # "start"
    /\ group = <<SenseRow, NoteRow, SenseRow>>
    /\ FailedAtEnd
    /\ Len(built.built) = 2

\* the group has a row with no cell or with more than three cells
HasUnrecognizedRow == \E i \in 1..Len(group) : Len(group[i].tds) \notin 1..3

\* C11: a group with a row of zero cells or of more than three cells makes
\* the call fail with the malformed-entry error (ValueError), whatever the
\* other rows hold and whether or not a source row came before.
C11_UnrecognizedRowIsMalformedEntry ==
    (buildPc # "start" /\ HasUnrecognizedRow) => built.exc = "ValueError"

\* the third cell of the row carries the class ToWrd among its classes
CarriesToWrd(tr) == HasToken(tr.tds[3].cls, "ToWrd")

\* the call failed on the class test of the target cell
FailedOnTargetClass ==
    /\ buildPc # "start"
    /\ built.exc = "ValueError"
    /\ built.msg = "Third td should have ToWrd class"

\* C12: a row of three cells is built only if its third cell carries the
\* class ToWrd: the call returns only when every such row carries it, and
\* it fails on the class test only at a row of three cells whose third
\* cell does not carry ToWrd, alone or together with other classes.
C12_ToWrdCarriedIsAccepted ==
    /\ Returned => \A i \in 1..Len(group) :
                       Len(group[i].tds) = 3 => CarriesToWrd(group[i])
    /\ FailedOnTargetClass =>
           /\ built.processed < Len(group)
           /\ Len(group[built.processed + 1].tds) = 3
           /\ ~CarriesToWrd(group[built.processed + 1])

\* the cell has a child element with the tag
HasTag(td, tag) == \E i \in 1..Len(td.nodes) : td.nodes[i].tag = tag

\* a source row with none of the optional parts: no part-of-speech element
\* by the headword, no italic qualifier and no sense label in the second
\* cell, no part-of-speech label in the target cell
IsBareHead(tr) ==
    /\ IsSourceRow(tr)
    /\ FirstTextOf(tr.tds[1].nodes, {"strong"}, "") # None
    /\ ~HasTag(tr.tds[1], "em")
    /\ ~HasTag(tr.tds[2], "i")
    /\ ~HasTag(tr.tds[2], "span span")
    /\ tr.tds[3].cls = <<"ToWrd">>
    /\ ~CssClass(tr.tds[3], "POS2")
    /\ FirstTextOf(tr.tds[3].nodes, {}, "") \notin {None, <<>>}
    /\ strip(FirstTextOf(tr.tds[3].nodes, {}, "")) \notin {<<>>, <<"(">>, <<"(", ")">>}

\* the second cell of the row has no text node at all
DefinitionAbsent(tr) == FirstTextOf(tr.tds[2].nodes, {}, "") = None

\* the second cell of the row has a text, of white space only
DefinitionBlank(tr) ==
    /\ ~DefinitionAbsent(tr)
    /\ strip(FirstTextOf(tr.tds[2].nodes, {}, "")) = <<>>

\* the optional fields of the Translation built from a one-row group are
\* all the empty string
OptionalFieldsEmpty ==
    /\ Returned
    /\ built.val.from_word.pos2 = <<>>
    /\ built.val.from_word.fr2 = <<>>
    /\ built.val.from_word.definition = <<>>
    /\ Len(built.val.to_words) = 1
    /\ built.val.to_words[1].pos2 = <<>>
    /\ built.val.to_words[1].dsense = <<>>

\* C13 as stated: a source row with no optional part and no text in its
\* definition cell (no text node, or white space only) yields a
\* Translation whose pos2, fr2, definition, dsense and target pos2 are "".
C13_AbsentFieldsAreEmpty_Original ==
    (/\ buildPc # "start"
     /\ Len(group) = 1
     /\ IsBareHead(group[1])
     /\ (DefinitionAbsent(group[1]) \/ DefinitionBlank(group[1])))
        => OptionalFieldsEmpty

\* C13 (amended): a source row with no optional part whose definition cell
\* holds white space only yields a Translation whose pos2, fr2, definition,
\* dsense and target pos2 are ""; when the definition cell has no text
\* node the call fails with ValueError("Definition should not be None").
C13_AbsentFieldsAreEmpty ==
    (buildPc # "start" /\ Len(group) = 1 /\ IsBareHead(group[1])) =>
        /\ DefinitionBlank(group[1]) => OptionalFieldsEmpty
        /\ DefinitionAbsent(group[1]) =>
               /\ built.exc = "ValueError"
               /\ built.msg = "Definition should not be None"

C13_Witness ==
    /\ buildPc # "start"
    /\ group = <<BareHeadRow>>
    /\ OptionalFieldsEmpty
    /\ built.val.from_word.text = <<"h">>

\* C14: every ToWord of a returned Translation has a text that is not
\* empty: a target cell whose text is absent, or is empty once trimmed and
\* stripped of its parentheses, makes the call fail.
C14_TargetTextNotEmpty ==
    Returned => \A j \in 1..Len(built.val.to_words) :
                    built.val.to_words[j].text # <<>>

(***************************************************************************)
(* Properties of the choice of tables (specification Spec)                 *)
(***************************************************************************)
\* the positions in doc of the tables that hold td#regular
RegularTables == {t \in 1..Len(doc) : doc[t].regular}

\* the Translations built from the rows of one table
TranslationsOf(table) == BuildAll(<<>>, GroupRows(table.trs)).objs

\* C15: when the document holds more than one regular table, only the
\* first of them contributes Translations to the returned list.
C15_OnlyFirstRegularTable ==
    (pc = "returned" /\ RegularTables # {}) =>
        translation_objs =
            TranslationsOf(doc[CHOOSE t \in RegularTables :
                                   \A u \in RegularTables : t <= u])

RECURSIVE ParseTables(_, _)
\* the outcome of grouping and building the given tables in order, onto
\* the list objs
ParseTables(objs, tables) ==
    IF tables = <<>> THEN [exc |-> "none", msg |-> "", objs |-> objs]
    ELSE LET r == BuildAll(objs, GroupRows(Head(tables).trs)) IN
         IF r.exc # "none" THEN r ELSE ParseTables(r.objs, Tail(tables))

\* the tables of doc that hold td#regular, in document order
RegularOnly == SelectSeq(doc, LAMBDA t : t.regular)

\* C16: tables without td#regular contribute nothing, whatever their rows:
\* the list and the error are those of the regular tables alone, and a
\* document without a regular table gives the empty list and no error.
C16_OtherTablesContributeNothing ==
    /\ translation_objs = ParseTables(<<>>, RegularOnly).objs
    /\ error.exc = ParseTables(<<>>, RegularOnly).exc
    /\ RegularTables = {} => (translation_objs = <<>> /\ pc # "raised")

C16_Witness ==
    /\ pc = "returned"
    /\ doc = <<[regular |-> FALSE, trs |-> <<WideRow, HeadRowEs>>],
               [regular |-> TRUE, trs |-> <<HeadRow>>]>>
    /\ Len(translation_objs) = 1
    /\ translation_objs[1].from_word.text = <<"h">>

RECURSIVE GroupsOf(_)
\* the row groups of the regular tables among the given ones, in table
\* order then group order
GroupsOf(tables) ==
    IF tables = <<>> THEN <<>>
    ELSE (IF Head(tables).regular THEN GroupRows(Head(tables).trs) ELSE <<>>)
         \o GroupsOf(Tail(tables))

C18_BuildIsPure ==
    buildPc = "rebuilt" =>
        /\ built.trs = group
        /\ rebuilt.exc = built.exc
        /\ rebuilt.val = built.val

\* the positions of the source rows of the group
SourceRows == {i \in 1..Len(group) : IsSourceRow(group[i])}

\* the texts of the italic elements of the cell
ItalicTexts(td) ==
    {td.nodes[i].text : i \in {j \in 1..Len(td.nodes) : td.nodes[j].tag = "i"}}

\* the characters of a string
Chars(s) == {s[i] : i \in 1..Len(s)}

\* C19: the FromWord built from a source row (returned when the row is the
\* only source row of its group) has for text the strong text of the first
\* cell and for fr2 the text of the italic element of the definition cell,
\* "" when there is none, and its definition holds no text of an italic
\* element.
C19_SourceFieldsFromTheirElements ==
    (Returned /\ Cardinality(SourceRows) = 1) =>
        LET tr == group[CHOOSE i \in SourceRows : TRUE]
            fw == built.val.from_word
        IN  /\ fw.text = FirstTextOf(tr.tds[1].nodes, {"strong"}, "")
            /\ HasTag(tr.tds[2], "i") =>
                   fw.fr2 = FirstTextOf(tr.tds[2].nodes, {"i"}, "")
            /\ ~HasTag(tr.tds[2], "i") => fw.fr2 = <<>>
            /\ \A q \in ItalicTexts(tr.tds[2]) : Chars(q) \cap Chars(fw.definition) = {}

C19_Witness ==
    /\ Returned
    /\ group = <<MixedDefinitionRow, SenseRow>>
    /\ built.val.from_word = FromWord(<<"h">>, <<"g", "a">>, <<"n">>, <<"q">>)

(***************************************************************************)
(* Properties of the configuration file (specification SpecConfig)         *)
(***************************************************************************)
RECURSIVE IsPlain(_)
\* the value is made of strings, None and dicts of such values only
IsPlain(v) ==
    IF v.kind = "dict" THEN \A k \in DOMAIN v.map : IsPlain(v.map[k])
    ELSE v.kind \in {"str", "none"}

BackendFailed ==
    \/ call.response.raised
    \/ ~client.deepl_translator /\ call.response.responseStatus # 200
    \/ call.response.translatedText = ""

\* C21: when the backend fails, translate_query returns False and creates
\* no card: the cards file and the list load_existing_cards gives are as
\* before, and no card was created on Mochi.
C21_FailureCreatesNoCard ==
    (call.op = "translate_query" /\ BackendFailed) =>
        /\ call.ret = FALSE
        /\ cards_file = call.file_before
        /\ load_existing_cards(cards_file) = load_existing_cards(call.file_before)
        /\ mochi_cards = call.mochi_before
        /\ ~call.attempted

C21_Witness ==
    /\ call.op = "translate_query"
    /\ call.response = Response(200, "")
    /\ call.ret = FALSE
    /\ Len(load_existing_cards(cards_file)) = 1
    /\ MochiConfigured(client)

\* C22: when the backend answers with a translation t that is not empty,
\* translate_query(q, from, to) returns True and load_existing_cards gives
\* the cards of before followed by one more card, with front q, back t and
\* language_pair "<from>-<to>".
C22_SuccessAddsOneCard ==
    (call.op = "translate_query" /\ ~BackendFailed) =>
        LET before == load_existing_cards(call.file_before)
            after == load_existing_cards(cards_file)
        IN  /\ call.ret = TRUE
            /\ Len(after) = Len(before) + 1
            /\ SubSeq(after, 1, Len(before)) = before
            /\ after[Len(after)].front = call.query
            /\ after[Len(after)].back = call.response.translatedText
            /\ after[Len(after)].language_pair = call.from_lang \o "-" \o call.to_lang

C22_Witness ==
    /\ call.op = "translate_query"
    /\ call.response = Response(200, "ho")
    /\ call.ret = TRUE
    /\ Len(load_existing_cards(cards_file)) = 2
    /\ load_existing_cards(cards_file)[2].front = "hi"
    /\ load_existing_cards(cards_file)[2].back = "ho"
    /\ load_existing_cards(cards_file)[2].language_pair = "en-es"

(***************************************************************************)
(* Properties of the choice of a deck (specifications SpecDeck and         *)
(* SpecDeckFair)                                                           *)
(***************************************************************************)
\* C23: TraduzClient._select_deck terminates: when the input the user types
\* eventually holds a valid deck number, a call that has reached the
\* "Select a deck" prompt eventually returns True.
C23_SelectDeckReturnsTrue ==
    (fn = "_select_deck" /\ deckPc = "prompt")
        ~> (deckPc = "returned" /\ deck_ret = "True")

\* select_mochi_deck has returned, called without a previously selected
\* deck on an account that holds a deck
ReturnedWithoutExisting ==
    /\ fn = "select_mochi_deck"
    /\ existing_deck_id = ""
    /\ account # <<>>
    /\ deckPc = "returned"

\* C26: select_mochi_deck called with existing_deck_id None on an account
\* with at least one deck fetches the decks, and returns the id of the deck
\* the user chose by a valid number, never None.
C26_NoExistingDeckPromptsAndReturnsChoice ==
    ReturnedWithoutExisting =>
        /\ decks = account
        /\ IsValidChoice(choice, decks)
        /\ deck_ret = decks[ParseInt(choice)]

(***************************************************************************)
(* More properties of make_translations (specification Spec)               *)
(***************************************************************************)
\* the rows of trs that are not header rows, in document order
NonHeaderRows(trs) == SelectSeq(trs, LAMBDA tr : ~IsHeaderRow(tr))

RECURSIVE Flatten(_)
\* the concatenation of the groups
Flatten(groups) ==
    IF groups = <<>> THEN <<>> ELSE Head(groups) \o Flatten(Tail(groups))

\* C24: the row groups of a regular table are an order-preserving partition
\* of its non-header rows: their concatenation is the non-header rows in
\* document order, a boundary row is only ever the first row of a group,
\* and without boundary rows there is one group holding all of them.
C24_GroupsPartitionRows ==
    LastIsRegular =>
        LET rows == NonHeaderRows(doc[Len(doc)].trs) IN
        /\ Flatten(translations) = rows
        /\ \A g \in 1..Len(translations) :
              \A i \in 2..Len(translations[g]) : ~IsBoundaryRow(translations[g][i])
        /\ (\A i \in 1..Len(rows) : ~IsBoundaryRow(rows[i]))
              => translations = <<rows>>

\* a regular table with a header row gave two groups, one of them with a
\* row after its boundary row
C24_Witness ==
    /\ LastIsRegular
    /\ Len(translations) = 2
    /\ \E i \in 1..Len(doc[Len(doc)].trs) : IsHeaderRow(doc[Len(doc)].trs[i])
    /\ \E g \in 1..2 : Len(translations[g]) = 2 /\ IsBoundaryRow(translations[g][1])

\* a row group the specification calls malformed: a 3-cell row whose third
\* cell lacks the ToWrd class, a row of no cell or of more than three, or
\* no row supplying the source headword
Malformed(trs) ==
    \/ \E k \in 1..Len(trs) : Len(trs[k].tds) = 3 /\ ~HasToken(trs[k].tds[3].cls, "ToWrd")
    \/ \E k \in 1..Len(trs) : Len(trs[k].tds) \notin {1, 2, 3}
    \/ ~\E k \in 1..Len(trs) : Len(trs[k].tds) = 3 /\ CssClass(trs[k].tds[1], "FrWrd")

\* the required fields of a Translation hold a text: the headword and the
\* text of every ToWord
FullyPopulated(translation) ==
    /\ translation.from_word.text \notin {None, <<>>}
    /\ \A j \in 1..Len(translation.to_words) :
           translation.to_words[j].text \notin {None, <<>>}

\* C25: make_translations never returns a partial result: when it returns,
\* no row group of a regular table was malformed, and every such group is
\* represented by one fully-populated Translation.
C25_NoPartialResult ==
    pc = "returned" =>
        /\ \A j \in 1..Len(GroupsOf(doc)) : ~Malformed(GroupsOf(doc)[j])
        /\ Len(translation_objs) = Len(GroupsOf(doc))
        /\ \A j \in 1..Len(translation_objs) : FullyPopulated(translation_objs[j])

(***************************************************************************)
(* More properties of the cards (specification SpecCards)                  *)
(***************************************************************************)
\* C27: starting without cards, after any sequence of save_card calls the
\* cards load_existing_cards gives are the Cards the calls returned,
\* unchanged and in the order of the calls, and their ids are 1..n.
C27_CardsKeptInOrder ==
    /\ load_existing_cards(cards_file) = returned_cards
    /\ \A i \in 1..Len(returned_cards) : returned_cards[i].id = i
    /\ \A i, j \in 1..Len(returned_cards) :
           i # j => returned_cards[i].id # returned_cards[j].id

C27_Witness ==
    /\ call.op = "save_card"
    /\ Len(returned_cards) = 2
    /\ returned_cards[1].created_at = "T2"
    /\ returned_cards[2].created_at = "T1"
    /\ load_existing_cards(cards_file)[2].id = 2

\* save_card ran in the last call
SaveCardRan == call.op = "save_card" \/ (call.op = "translate_query" /\ call.ret)

\* C28: a Mochi failure never prevents or undoes the local save: when Mochi
\* is configured and create_card returns False, the card was in the cards
\* file when create_card was called, it still is, and save_card returned
\* it; create_card is called only when mochi_client and selected_deck_id
\* are both set.
C28_MochiFailureKeepsLocalSave ==
    SaveCardRan =>
        LET after == load_existing_cards(cards_file) IN
        /\ (MochiConfigured(client) /\ ~call.mochi_ok) =>
              /\ call.attempted
              /\ after # <<>>
              /\ after[Len(after)] = call.card
              /\ call.card.front = call.query
              /\ load_existing_cards(call.file_at_create) = after
              /\ Len(after) = Len(load_existing_cards(call.file_before)) + 1
              /\ mochi_cards = call.mochi_before
        /\ call.attempted => (client.mochi_client /\ client.selected_deck_id # "")

C28_Witness ==
    /\ call.op = "save_card"
    /\ client.mochi_client
    /\ client.selected_deck_id = "d1"
    /\ call.attempted
    /\ ~call.mochi_ok
    /\ Len(load_existing_cards(cards_file)) = 2
    /\ load_existing_cards(cards_file)[2] = call.card
    /\ mochi_cards = <<>>

(***************************************************************************)
(* Properties of the entries of the configuration (specification           *)
(* SpecHelpers)                                                            *)
(***************************************************************************)
\* C29: each save_* helper changes only its own entry: after any sequence
\* of save_mochi_api_key, save_deepl_api_key and save_selected_deck_id,
\* every get_* returns the value saved last for its entry, None when the
\* entry was never saved.
C29_SaveChangesOwnEntryOnly ==
    /\ get_mochi_api_key(config_file) = HelperResult("none", recent.mochi_api_key, config_file)
    /\ get_deepl_api_key(config_file) = HelperResult("none", recent.deepl_api_key, config_file)
    /\ get_selected_deck_id(config_file) =
           HelperResult("none", recent.selected_deck_id, config_file)

\* the deck id was saved last, after both keys, and all three are kept
C29_Witness ==
    /\ cfgPc = "save_selected_deck_id"
    /\ saved
    /\ get_mochi_api_key(config_file).val = PyStr("k")
    /\ get_deepl_api_key(config_file).val = PyStr("j")
    /\ get_selected_deck_id(config_file).val = PyStr("k")

(***************************************************************************)
(* Properties of the lookup of the card template (specification            *)
(* SpecTemplate)                                                           *)
(***************************************************************************)
\* the template has a field of that name and id
HasField(template_dict, name, id) ==
    \E j \in 1..Len(template_dict.fields) :
        template_dict.fields[j] = [name |-> name, id |-> id]

\* C30: the lookup returns ('', '', '') or a triple whose front_id and
\* back_id are the ids of the Front and Back fields of the template whose
\* id is template_id; it never joins the id of one template to the fields
\* of another.
C30_TripleOfOneTemplate ==
    tplPc \in {"get_mochi_template", "_get_template"} =>
        \/ tpl_ret = Triple("", "", "")
        \/ \E i \in 1..Len(templates.docs) :
              /\ templates.docs[i].id = tpl_ret.template_id
              /\ HasField(templates.docs[i], "Front", tpl_ret.front_id)
              /\ HasField(templates.docs[i], "Back", tpl_ret.back_id)

====
